---- MODULE Spec2Model ----
(***************************************************************************)
(* Reward ledger, store redemption, NFC scan gate and stage/content        *)
(* progression of the xpg backend, modelled at the level of the SQL        *)
(* statements each request handler issues.                                 *)
(*                                                                         *)
(* Database: PostgreSQL at its default isolation level (READ COMMITTED).   *)
(* The variables below hold the COMMITTED rows.  A request is a process    *)
(* that runs one transaction: every statement it awaits is one step, a     *)
(* plain SELECT reads the committed rows, SELECT ... FOR UPDATE and UPDATE *)
(* wait for and take the row lock, and the rows a transaction writes       *)
(* become visible to the other requests at its commit step, all at once.   *)
(* A rollback discards them and releases the locks.                        *)
(*                                                                         *)
(* Time is counted in ticks of 1/TicksPerSec second, so that the integer   *)
(* truncation of a remaining cooldown is a real computation.               *)
(***************************************************************************)
EXTENDS Integers, Sequences, FiniteSets, TLC

\* ---------------------------------------------------------------- bounds
NProcs == 2        \* requests in flight at the same time
MaxOps == 3        \* requests started in one behaviour
MaxTime == 5       \* ticks the clock advances in one behaviour
MaxCoord == 6      \* largest position of a location verification request
MaxDays == 32      \* days the clock advances in one behaviour

\* ------------------------------------------------------- nullable values
Null == <<>>
Some(x) == <<x>>
IsNull(o) == o = <<>>
Val(o) == o[1]

Abs(x) == IF x < 0 THEN -x ELSE x

\* ------------------------------------------------------------ identities
Procs == 1..NProcs
Users == {"u1", "u2"}
Rewards == {"r1", "r2", "r3"}
\* a reward id that names no store_rewards row
MissingReward == "r0"
RewardIds == Rewards \cup {MissingReward}

\* store_rewards.price_coin, store_rewards.is_active (not changed by any
\* player operation)
price_coin == [r \in Rewards |-> CASE r = "r1" -> 2 [] r = "r2" -> 1 [] OTHER -> 1]
is_active == [r \in Rewards |-> r # "r3"]

\* nfc_tags: t1 has a cooldown and no use limit, t2 a shorter cooldown and a
\* use limit and pays nothing, t3 has a cooldown and a use limit and is
\* deactivated
Tags == {"t1", "t2", "t3"}
\* a udid that names no nfc_tags row
MissingTag == "t0"
Udids == Tags \cup {MissingTag}
tag_is_active == [t \in Tags |-> t # "t3"]
tag_cooldown_sec == [t \in Tags |-> CASE t = "t1" -> 2 [] t = "t2" -> 1 [] OTHER -> 2]
tag_use_limit == [t \in Tags |-> CASE t = "t2" -> Some(2) [] t = "t3" -> Some(1) [] OTHER -> Null]
tag_point_reward == [t \in Tags |-> IF t = "t2" THEN 0 ELSE 1]

\* contents and stages: c1 has the top-level stages sA and sB and the sub-stage
\* sA1 of sA; sB is unlocked by clearing sA; c1 is followed by c2. c2 and c3
\* have no stages.
Contents == {"c1", "c2", "c3"}
Stages == {"sA", "sA1", "sB"}
stage_content == [st \in Stages |-> "c1"]
stage_parent == [st \in Stages |-> IF st = "sA1" THEN "sA" ELSE ""]
stage_unlock_stage_id == [st \in Stages |-> IF st = "sB" THEN "sA" ELSE ""]
content_has_next_content == [c \in Contents |-> c = "c1"]
content_next_content_id == [c \in Contents |-> IF c = "c1" THEN "c2" ELSE ""]
\* c1 is open and always on, though its window (ticks 2 to 3) is set; c2 is
\* open from tick 1 to tick 3 only; c3 is closed, with no window
content_is_open == [c \in Contents |-> c # "c3"]
content_is_always_on == [c \in Contents |-> c # "c2"]
content_start_at == [c \in Contents |-> CASE c = "c1" -> Some(2) [] c = "c2" -> Some(1) [] OTHER -> Null]
content_end_at == [c \in Contents |-> IF c = "c3" THEN Null ELSE Some(3)]
\* ids that name no contents row and no stages row
MissingContent == "c0"
MissingStage == "s0"
ContentIds == Contents \cup {MissingContent}
\* the content ids of the calls that go with stage progress
StageContentIds == {stage_content[st] : st \in Stages} \cup {MissingContent}
StageIds == Stages \cup {MissingStage}
\* best_time_sec of a clear request: absent, or a number of seconds
BestTimes == {Null, Some(1), Some(2)}

\* stage_hints: h1 (stage sA) is bound to tag t1, h2 (stage sB) to tag t2
Hints == {"h1", "h2"}
hint_stage == [h \in Hints |-> IF h = "h1" THEN "sA" ELSE "sB"]
hint_nfc == [h \in Hints |-> IF h = "h1" THEN "t1" ELSE "t2"]
\* the hint_id of a scan request: not supplied, or supplied
HintArgs == {""} \cup Hints
\* stage_hints.location, radius_m and reward_coin: positions are metres along
\* a line; h1 is verified within 2 m of its target and pays 1 coin, h2 within
\* 1 m of the same target and pays nothing
hint_location == [h \in Hints |-> Some(3)]
hint_radius_m == [h \in Hints |-> IF h = "h1" THEN Some(2) ELSE Some(1)]
hint_reward_coin == [h \in Hints |-> IF h = "h1" THEN 1 ELSE 0]
\* an id that names no stage_hints row
MissingHint == "h0"
HintIds == Hints \cup {MissingHint}
\* the positions a location verification request may carry
Points == 0..MaxCoord

\* ticks per second of the clock
TicksPerSec == 2

\* coin_delta values a point adjustment request may carry
AdjustDeltas == {-2, 1}

VARIABLES
  ledger,    \* rewards_ledger: committed rows in insertion order
  points,    \* users.profile['points'], the cached balance
  stock,     \* store_rewards.stock_qty (Null = unlimited)
  rowLock,   \* row -> the request holding its row lock, 0 when free
  scanLog,   \* nfc_scan_logs: committed rows in insertion order
  stageProg, \* user_stage_progress: user -> stage -> row (NoRow = no row)
  contentProg, \* user_content_progress: user -> content -> row
  now,       \* the clock, in ticks
  pc,        \* request slot -> the statement it is at ("idle" = no request)
  loc,       \* request slot -> the handler's local variables
  resp,      \* request slot -> the response of its last finished request
  ops,       \* requests started so far
  userRows,  \* users: user -> status and deleted_at of the row (NoUser = no row)
  lastDeleted, \* user -> the time the status last changed into deleted (history)
  stageHints,  \* stage_hints: hint id -> row (NoHint = no row)
  uses_nfc   \* stages.uses_nfc

vars == <<ledger, points, stock, rowLock, scanLog, stageProg, contentProg, now,
          pc, loc, resp, ops, userRows, lastDeleted, stageHints, uses_nfc>>

\* the account rows and the hint table, written by the admin and account
\* operations only
adminVars == <<userRows, lastDeleted, stageHints, uses_nfc>>

\* the scan log, the progress rows and the clock
progVars == <<scanLog, stageProg, contentProg, now>>

\* ------------------------------------------------------------- ledger
LedgerRow(u, d, st, sr) ==
  [user_id |-> u, coin_delta |-> d, stage_id |-> st, store_reward_id |-> sr]

RECURSIVE SumDeltas(_, _)
SumDeltas(rows, u) ==
  IF rows = <<>> THEN 0
  ELSE (IF rows[1].user_id = u THEN rows[1].coin_delta ELSE 0)
       + SumDeltas(Tail(rows), u)

\* select(func.sum(RewardLedger.coin_delta)).where(user_id == u) ... or 0
LedgerSum(u) == SumDeltas(ledger, u)

\* ------------------------------------------------------------ row locks
LockFree(row, p) == rowLock[row] \in {0, p}
Locked(row, p) == [rowLock EXCEPT ![row] = p]
Released(p) == [row \in DOMAIN rowLock |-> IF rowLock[row] = p THEN 0 ELSE rowLock[row]]

\* ------------------------------------------------------ request records
\* user_stage_progress / user_content_progress: the absent row
NoRow ==
  [status |-> "none", unlock_at |-> Null, cleared_at |-> Null, nfc_count |-> 0,
   best_time_sec |-> Null]

NoContentRow == [status |-> "none", joined_at |-> Null, cleared_at |-> Null]

Loc0 ==
  [kind |-> "none", user |-> "", reward_id |-> "", coin_delta |-> 0,
   current_points |-> 0, udid |-> "", hint_id |-> "", hint |-> "", t0 |-> 0,
   stage_progress |-> NoRow, stage_id |-> "", nfc_id |-> Null, nfc_change |-> FALSE,
   set_uses_nfc |-> Null]

\* the response body: the fields of RewardConsumeResponse / RewardRedeemResponse,
\* NFCScanResponse, StageUnlockResponse and StageClearResponse, with the HTTP status
NoResp ==
  [kind |-> "none", status |-> 0, detail |-> "", remaining_points |-> 0,
   allowed |-> FALSE, cooldown_sec |-> 0, point_reward |-> 0,
   distance |-> 0, unlocked |-> FALSE, cleared |-> FALSE, rewards |-> <<>>,
   content_cleared |-> FALSE, next_content |-> ""]

Response(k, s, d, n) ==
  [NoResp EXCEPT !.kind = k, !.status = s, !.detail = d, !.remaining_points = n]

\* the response of slot p is sent, its locals are dropped
Reply(p, r) ==
  /\ pc' = [pc EXCEPT ![p] = "idle"]
  /\ loc' = [loc EXCEPT ![p] = Loc0]
  /\ resp' = [resp EXCEPT ![p] = r]

\* the request of slot p ends (a player or point request: it writes neither
\* the users' status columns nor the hint table)
Finish(p, r) ==
  /\ Reply(p, r)
  /\ UNCHANGED adminVars

\* the request goes on to its next statement
Goto(p, label, l) ==
  /\ pc' = [pc EXCEPT ![p] = label]
  /\ loc' = [loc EXCEPT ![p] = l]
  /\ resp' = [resp EXCEPT ![p] = NoResp]
  /\ UNCHANGED adminVars

\* users: the absent row
NoUser == [status |-> "none", deleted_at |-> Null]

\* stage_hints: the absent row; state is "free" for an id not yet given out,
\* "live" for a row, "deleted" for a row that was deleted (ids are uuid4 values
\* and never given out twice)
NoHint == [state |-> "free", stage_id |-> "", nfc_id |-> Null]
HintRow(s, n) == [state |-> "live", stage_id |-> s, nfc_id |-> n]

\* the ids of stage_hints rows: those of the two hints the stages start with
\* and those the create_hint calls are given, in the order they are given out
NewHintKeys == <<"h3", "h4">>
HintKeys == Hints \cup {NewHintKeys[i] : i \in 1..Len(NewHintKeys)}

\* every user is registered and active; the hint table holds h1 and h2, and
\* uses_nfc of their stages was set when they were created
InitAdmin ==
  /\ userRows = [u \in Users |-> [status |-> "active", deleted_at |-> Null]]
  /\ lastDeleted = [u \in Users |-> Null]
  /\ stageHints = [h \in HintKeys |->
                     IF h \in Hints THEN HintRow(hint_stage[h], Some(hint_nfc[h]))
                     ELSE NoHint]
  /\ uses_nfc = [x \in Stages |-> \E h \in Hints : hint_stage[h] = x]

\* a request is accepted on a free slot
CanStart(p) == pc[p] = "idle" /\ ops < MaxOps

\* (variant: the stock check lets a stock of 0 through)
StockExhaustedBelowZero(stock_qty) == ~IsNull(stock_qty) /\ Val(stock_qty) < 0

\* the stock check: a non-null stock_qty that is used up
StockExhausted(stock_qty) == ~IsNull(stock_qty) /\ Val(stock_qty) <= 0

\* ------------------------------------------- POST /progress/rewards/consume
\* lock the reward row, then the existence, is_active and stock checks
ConsumeLockReward(p, u, r) ==
  /\ UNCHANGED progVars
  /\ CanStart(p)
  /\ ops' = ops + 1
  /\ UNCHANGED <<ledger, points, stock>>
  /\ IF r \notin Rewards
     THEN /\ Finish(p, Response("consume", 404, "Reward item not found", 0))
          /\ UNCHANGED rowLock
     ELSE /\ LockFree(r, p)
          /\ IF ~is_active[r]
             THEN /\ Finish(p, Response("consume", 400, "Reward item is not active", 0))
                  /\ UNCHANGED rowLock
             ELSE IF StockExhausted(stock[r])
             THEN /\ Finish(p, Response("consume", 400, "Item out of stock", 0))
                  /\ UNCHANGED rowLock
             ELSE /\ Goto(p, "consume_sum",
                          [Loc0 EXCEPT !.kind = "consume", !.user = u, !.reward_id = r])
                  /\ rowLock' = Locked(r, p)

\* the balance is summed from the ledger and compared with the price
ConsumeReadSum(p) ==
  /\ UNCHANGED progVars
  /\ pc[p] = "consume_sum"
  /\ UNCHANGED <<ledger, points, stock, ops>>
  /\ LET current_points == LedgerSum(loc[p].user) IN
     IF current_points < price_coin[loc[p].reward_id]
     THEN /\ Finish(p, Response("consume", 400, "Not enough points", current_points))
          /\ rowLock' = Released(p)
     ELSE /\ Goto(p, "consume_lock_user", [loc[p] EXCEPT !.current_points = current_points])
          /\ UNCHANGED rowLock

\* db.get(User, ..., with_for_update=True)
ConsumeLockUser(p) ==
  /\ UNCHANGED progVars
  /\ pc[p] = "consume_lock_user"
  /\ LockFree(loc[p].user, p)
  /\ rowLock' = Locked(loc[p].user, p)
  /\ Goto(p, "consume_commit", loc[p])
  /\ UNCHANGED <<ledger, points, stock, ops>>

\* flush and commit: stock decrement, ledger entry, cached balance
ConsumeCommit(p) ==
  /\ UNCHANGED progVars
  /\ pc[p] = "consume_commit"
  /\ LET r == loc[p].reward_id
         u == loc[p].user
         remaining == loc[p].current_points - price_coin[r] IN
       /\ stock' = IF IsNull(stock[r]) THEN stock
                   ELSE [stock EXCEPT ![r] = Some(Val(stock[r]) - 1)]
       /\ ledger' = Append(ledger, LedgerRow(u, -price_coin[r], "", r))
       /\ points' = [points EXCEPT ![u] = remaining]
       /\ Finish(p, Response("consume", 200, "", remaining))
  /\ rowLock' = Released(p)
  /\ UNCHANGED ops

\* ---------------------------------------------------- POST /rewards/redeem
\* lock the reward row, the checks, and the stock decrement (in the transaction)
RedeemLockReward(p, u, r) ==
  /\ UNCHANGED progVars
  /\ CanStart(p)
  /\ ops' = ops + 1
  /\ UNCHANGED <<ledger, points, stock>>
  /\ IF r \notin Rewards
     THEN /\ Finish(p, Response("redeem", 404, "reward not found", 0))
          /\ UNCHANGED rowLock
     ELSE /\ LockFree(r, p)
          /\ IF ~is_active[r]
             THEN /\ Finish(p, Response("redeem", 400, "reward not active", 0))
                  /\ UNCHANGED rowLock
             ELSE IF StockExhausted(stock[r])
             THEN /\ Finish(p, Response("redeem", 400, "Item out of stock", 0))
                  /\ UNCHANGED rowLock
             ELSE /\ Goto(p, "redeem_lock_user",
                          [Loc0 EXCEPT !.kind = "redeem", !.user = u, !.reward_id = r])
                  /\ rowLock' = Locked(r, p)

\* (variant: the denial for a short balance keeps the stock decrement that
\* the transaction had made instead of rolling it back)
RedeemLockUserNoRollback(p) ==
  /\ UNCHANGED progVars
  /\ pc[p] = "redeem_lock_user"
  /\ LockFree(loc[p].user, p)
  /\ UNCHANGED <<ledger, points, ops>>
  /\ LET user_points == points[loc[p].user]
         r == loc[p].reward_id IN
     IF user_points < price_coin[r]
     THEN /\ Finish(p, Response("redeem", 400, "Not enough points", user_points))
          /\ rowLock' = Released(p)
          /\ stock' = IF IsNull(stock[r]) THEN stock
                      ELSE [stock EXCEPT ![r] = Some(Val(stock[r]) - 1)]
     ELSE /\ Goto(p, "redeem_commit", [loc[p] EXCEPT !.current_points = user_points])
          /\ rowLock' = Locked(loc[p].user, p)
          /\ UNCHANGED stock

\* lock the user row, read the cached balance, compare with the price
RedeemLockUser(p) ==
  /\ UNCHANGED progVars
  /\ pc[p] = "redeem_lock_user"
  /\ LockFree(loc[p].user, p)
  /\ UNCHANGED <<ledger, points, stock, ops>>
  /\ LET user_points == points[loc[p].user] IN
     IF user_points < price_coin[loc[p].reward_id]
     THEN /\ Finish(p, Response("redeem", 400, "Not enough points", user_points))
          /\ rowLock' = Released(p)
     ELSE /\ Goto(p, "redeem_commit", [loc[p] EXCEPT !.current_points = user_points])
          /\ rowLock' = Locked(loc[p].user, p)

RedeemCommit(p) ==
  /\ UNCHANGED progVars
  /\ pc[p] = "redeem_commit"
  /\ LET r == loc[p].reward_id
         u == loc[p].user
         new_points == loc[p].current_points - price_coin[r] IN
       /\ stock' = IF IsNull(stock[r]) THEN stock
                   ELSE [stock EXCEPT ![r] = Some(Val(stock[r]) - 1)]
       /\ points' = [points EXCEPT ![u] = new_points]
       /\ ledger' = Append(ledger, LedgerRow(u, -Abs(price_coin[r]), "", r))
       /\ Finish(p, Response("redeem", 200, "", new_points))
  /\ rowLock' = Released(p)
  /\ UNCHANGED ops

\* --------------------------------------------------- POST /me/adjust-points
AdjustMyReadSum(p, u, d) ==
  /\ UNCHANGED progVars
  /\ CanStart(p)
  /\ ops' = ops + 1
  /\ UNCHANGED <<ledger, points, stock, rowLock>>
  /\ LET current_points == LedgerSum(u) IN
     IF d < 0 /\ current_points + d < 0
     THEN Finish(p, Response("adjust_my", 400, "Not enough points", current_points))
     ELSE Goto(p, "adjust_my_update",
               [Loc0 EXCEPT !.kind = "adjust_my", !.user = u, !.coin_delta = d,
                            !.current_points = current_points])

\* update(User).values(profile=updated_profile): takes the user's row lock
AdjustMyUpdate(p) ==
  /\ UNCHANGED progVars
  /\ pc[p] = "adjust_my_update"
  /\ LockFree(loc[p].user, p)
  /\ rowLock' = Locked(loc[p].user, p)
  /\ Goto(p, "adjust_my_commit", loc[p])
  /\ UNCHANGED <<ledger, points, stock, ops>>

AdjustMyCommit(p) ==
  /\ UNCHANGED progVars
  /\ pc[p] = "adjust_my_commit"
  /\ LET u == loc[p].user
         new_points == loc[p].current_points + loc[p].coin_delta IN
       /\ ledger' = Append(ledger, LedgerRow(u, loc[p].coin_delta, "", ""))
       /\ points' = [points EXCEPT ![u] = new_points]
       /\ Finish(p, Response("adjust_my", 200, "", new_points))
  /\ rowLock' = Released(p)
  /\ UNCHANGED <<stock, ops>>

\* ------------------------------------ POST /admin/users/{id}/adjust-points
\* select(User): the cached balance is read without a lock
AdjustUserRead(p, u, d) ==
  /\ UNCHANGED progVars
  /\ CanStart(p)
  /\ ops' = ops + 1
  /\ Goto(p, "adjust_user_commit",
          [Loc0 EXCEPT !.kind = "adjust_user", !.user = u, !.coin_delta = d,
                       !.current_points = points[u]])
  /\ UNCHANGED <<ledger, points, stock, rowLock>>

\* an admin correction that rewrites the user's latest entry in place
AdjustUserCommitInPlace(p) ==
  /\ UNCHANGED progVars
  /\ pc[p] = "adjust_user_commit"
  /\ LockFree(loc[p].user, p)
  /\ LET u == loc[p].user
         new_points == loc[p].current_points + loc[p].coin_delta
         last == CHOOSE i \in DOMAIN ledger :
                   /\ ledger[i].user_id = u
                   /\ \A j \in DOMAIN ledger : ledger[j].user_id = u => j <= i IN
       /\ ledger' = [ledger EXCEPT ![last].coin_delta = @ + loc[p].coin_delta]
       /\ points' = [points EXCEPT ![u] = new_points]
       /\ Finish(p, Response("adjust_user", 200, "", new_points))
  /\ rowLock' = Released(p)
  /\ UNCHANGED <<stock, ops>>

\* commit: the flush inserts the entry and updates the user row (waiting for
\* its lock), then the transaction commits
AdjustUserCommit(p) ==
  /\ UNCHANGED progVars
  /\ pc[p] = "adjust_user_commit"
  /\ LockFree(loc[p].user, p)
  /\ LET u == loc[p].user
         new_points == loc[p].current_points + loc[p].coin_delta IN
       /\ ledger' = Append(ledger, LedgerRow(u, loc[p].coin_delta, "", ""))
       /\ points' = [points EXCEPT ![u] = new_points]
       /\ Finish(p, Response("adjust_user", 200, "", new_points))
  /\ rowLock' = Released(p)
  /\ UNCHANGED <<stock, ops>>

\* a failure of a scan that leaves the scan's log row behind
FailKeepsScanLog(p) ==
  /\ pc[p] # "idle"
  /\ Finish(p, Response(loc[p].kind, 500, "An error occurred", 0))
  /\ rowLock' = Released(p)
  /\ scanLog' = IF pc[p] \in {"scan_lock_user", "scan_progress", "scan_commit"}
                  THEN Append(scanLog, [user_id |-> loc[p].user, nfc_id |-> loc[p].udid,
                                        hint_id |-> loc[p].hint_id, allowed |-> TRUE,
                                        reason |-> "", remaining |-> 0,
                                        scanned_at |-> loc[p].t0])
                  ELSE scanLog
  /\ UNCHANGED <<ledger, points, stock, ops, stageProg, contentProg, now>>

\* ----------------------------------------------------- a failing request
\* any exception while a transaction is open (a database error, a lost
\* connection): the handler rolls back and answers 500
Fail(p) ==
  /\ UNCHANGED progVars
  /\ pc[p] # "idle"
  /\ Finish(p, Response(loc[p].kind, 500, "An error occurred", 0))
  /\ rowLock' = Released(p)
  /\ UNCHANGED <<ledger, points, stock, ops>>

\* ---------------------------------------------------------------------------
\* POST /nfc/scan (scan_nfc)

\* int(): truncation toward zero of a / b, b > 0
TruncDiv(a, b) == IF a >= 0 THEN a \div b ELSE -((-a) \div b)

\* one nfc_scan_logs row; remaining is the number the cooldown reason carries
LogRow(u, t, h, a, why, rem, at) ==
  [user_id |-> u, nfc_id |-> t, hint_id |-> h, allowed |-> a, reason |-> why,
   remaining |-> rem, scanned_at |-> at]

\* the positions of the allowed scans of tag t by user u in the log
AllowedScans(log, u, t) ==
  {i \in DOMAIN log : log[i].user_id = u /\ log[i].nfc_id = t /\ log[i].allowed}

\* the allowed scans of t by u stamped at or before the threshold too
RecentScansNoWindow(log, u, t, at) == AllowedScans(log, u, t)

\* a cooldown check that gives way to the use limit once that is reached
RecentScansUnlessLimit(log, u, t, at) ==
  IF /\ ~IsNull(tag_use_limit[t])
     /\ Cardinality(AllowedScans(log, u, t)) >= Val(tag_use_limit[t])
    THEN {}
    ELSE {i \in AllowedScans(log, u, t) :
            log[i].scanned_at > at - tag_cooldown_sec[t] * TicksPerSec}

\* the allowed scans of t by u stamped after the cooldown threshold
RecentScans(log, u, t, at) ==
  {i \in AllowedScans(log, u, t) :
     log[i].scanned_at > at - tag_cooldown_sec[t] * TicksPerSec}

\* order_by(scanned_at.desc()).limit(1): the stamp of the most recent of them
LatestStamp(log, is) ==
  CHOOSE m \in {log[i].scanned_at : i \in is} :
    \A i \in is : log[i].scanned_at <= m

\* int(cooldown_sec - time_diff), time_diff in seconds
RemainingCooldown(t, stamp, at) ==
  TruncDiv(tag_cooldown_sec[t] * TicksPerSec - (at - stamp), TicksPerSec)

\* the use limit check counting every scan, denied ones included
UsageLimitReachedAnyScan(log, u, t) ==
  /\ ~IsNull(tag_use_limit[t])
  /\ Cardinality({i \in DOMAIN log : log[i].user_id = u /\ log[i].nfc_id = t})
       >= Val(tag_use_limit[t])

\* usage_count >= use_limit, over the allowed scans
UsageLimitReached(log, u, t) ==
  /\ ~IsNull(tag_use_limit[t])
  /\ Cardinality(AllowedScans(log, u, t)) >= Val(tag_use_limit[t])

\* the hint a scan resolves: the one bound to the tag when no hint_id is given,
\* the one with the given id otherwise; "" when there is none
ResolveHint(t, h) ==
  IF h = ""
    THEN IF \E x \in Hints : hint_nfc[x] = t
           THEN CHOOSE x \in Hints : hint_nfc[x] = t
           ELSE ""
    ELSE IF h \in Hints THEN h ELSE ""

ScanDenied(why, cd) ==
  [NoResp EXCEPT !.kind = "scan", !.status = 200, !.detail = why, !.cooldown_sec = cd]

\* a denial that leaves no audit row
ScanDenyUnlogged(p, u, t, why, rem) ==
  /\ Finish(p, ScanDenied(why, rem))
  /\ UNCHANGED <<ledger, points, stock, rowLock, scanLog, stageProg, contentProg>>

\* a denied scan: the audit row is committed and the denial returned
ScanDeny(p, u, t, why, rem) ==
  /\ scanLog' = Append(scanLog, LogRow(u, t, "", FALSE, why, rem, now))
  /\ Finish(p, ScanDenied(why, rem))
  /\ UNCHANGED <<ledger, points, stock, rowLock, stageProg, contentProg>>

\* the gates of a scan, in order: tag lookup, active flag, cooldown, use limit;
\* a scan that passes resolves its hint and goes on to the grant
ScanNfc(p, u, t, h) ==
  /\ CanStart(p)
  /\ ops' = ops + 1
  /\ now' = now
  /\ IF t \notin Tags
       THEN ScanDeny(p, u, "", "NFC tag not found", 0)
     ELSE IF ~tag_is_active[t]
       THEN ScanDeny(p, u, t, "NFC tag is not active", 0)
     ELSE IF tag_cooldown_sec[t] > 0 /\ RecentScans(scanLog, u, t, now) # {}
       THEN ScanDeny(p, u, t, "Cooldown active",
                     RemainingCooldown(t, LatestStamp(scanLog, RecentScans(scanLog, u, t, now)), now))
     ELSE IF UsageLimitReached(scanLog, u, t)
       THEN ScanDeny(p, u, t, "Usage limit reached", 0)
     ELSE
       LET hint == ResolveHint(t, h)
           l == [Loc0 EXCEPT !.kind = "scan", !.user = u, !.udid = t,
                             !.hint_id = IF h = "" THEN hint ELSE h,
                             !.hint = hint, !.t0 = now]
       IN /\ Goto(p, IF tag_point_reward[t] > 0 THEN "scan_lock_user"
                     ELSE IF hint # "" THEN "scan_progress"
                     ELSE "scan_commit", l)
          /\ UNCHANGED <<ledger, points, stock, rowLock, scanLog, stageProg, contentProg>>

\* a point grant that looks at the cooldown again once it holds the users row
ScanLockUserRechecks(p) ==
  /\ pc[p] = "scan_lock_user"
  /\ LockFree(loc[p].user, p)
  /\ IF RecentScans(scanLog, loc[p].user, loc[p].udid, now) # {}
       THEN /\ scanLog' = Append(scanLog, LogRow(loc[p].user, loc[p].udid, "", FALSE,
                                                 "Cooldown active", 0, now))
            /\ Finish(p, ScanDenied("Cooldown active", 0))
            /\ UNCHANGED <<rowLock, stageProg, contentProg, now>>
       ELSE /\ rowLock' = Locked(loc[p].user, p)
            /\ Goto(p, IF loc[p].hint # "" THEN "scan_progress" ELSE "scan_commit",
                    [loc[p] EXCEPT !.current_points = points[loc[p].user]])
            /\ UNCHANGED progVars
  /\ UNCHANGED <<ledger, points, stock, ops>>

\* the point grant: the users row is locked and the cached balance read
ScanLockUser(p) ==
  /\ pc[p] = "scan_lock_user"
  /\ LockFree(loc[p].user, p)
  /\ rowLock' = Locked(loc[p].user, p)
  /\ Goto(p, IF loc[p].hint # "" THEN "scan_progress" ELSE "scan_commit",
          [loc[p] EXCEPT !.current_points = points[loc[p].user]])
  /\ UNCHANGED <<ledger, points, stock, ops, progVars>>

\* a scan that locks the row of reward r2 while it holds the users row
ScanProgressLocksReward(p) ==
  /\ pc[p] = "scan_progress"
  /\ LockFree("r2", p)
  /\ rowLock' = Locked("r2", p)
  /\ Goto(p, "scan_commit",
          [loc[p] EXCEPT !.stage_progress = stageProg[loc[p].user][hint_stage[loc[p].hint]]])
  /\ UNCHANGED <<ledger, points, stock, ops, progVars>>

\* the stage progress row of the hint's stage is read
ScanProgress(p) ==
  /\ pc[p] = "scan_progress"
  /\ Goto(p, "scan_commit",
          [loc[p] EXCEPT !.stage_progress = stageProg[loc[p].user][hint_stage[loc[p].hint]]])
  /\ UNCHANGED <<ledger, points, stock, rowLock, ops, progVars>>

\* the progress write that sets the count of an existing row back to one
TouchedSetsOne(row, read) ==
  [(IF read.status = "none" THEN [NoRow EXCEPT !.status = "in_progress"] ELSE row)
     EXCEPT !.nfc_count = 1]

\* the row a scan or a location check writes for the stage of its hint: a new
\* in_progress row with nfc_count 1, or the count read plus one
Touched(row, read) ==
  IF read.status = "none"
    THEN [NoRow EXCEPT !.status = "in_progress", !.nfc_count = 1]
    ELSE [row EXCEPT !.nfc_count = read.nfc_count + 1]

\* the request read no progress row for the stage of its hint and is about to
\* insert one, and another request has committed that row since: the insert
\* violates the primary key (user_id, stage_id)
StaleInsert(p) ==
  /\ loc[p].hint # ""
  /\ loc[p].stage_progress.status = "none"
  /\ stageProg[loc[p].user][hint_stage[loc[p].hint]].status # "none"

\* the transaction of a scan or a location check fails on that insert: it is
\* rolled back and the request answered 500
InsertConflict(p) ==
  /\ pc[p] \in {"scan_commit", "verify_commit"}
  /\ StaleInsert(p)
  /\ Finish(p, Response(loc[p].kind, 500, "An error occurred", 0))
  /\ rowLock' = Released(p)
  /\ UNCHANGED <<ledger, points, stock, ops, progVars>>

\* the answer to an allowed scan
ScanAllowed(t) ==
  [NoResp EXCEPT !.kind = "scan", !.status = 200, !.allowed = TRUE,
                 !.point_reward = tag_point_reward[t],
                 !.cooldown_sec = tag_cooldown_sec[t]]

\* the transaction commits: the allowed log row, the ledger row and the cache
\* when the tag pays, the progress row when a hint was resolved; with a hint
\* the next hint is still to be looked up, after the transaction
ScanCommit(p) ==
  LET u == loc[p].user
      t == loc[p].udid
      h == loc[p].hint
      r == tag_point_reward[t]
  IN /\ pc[p] = "scan_commit"
     /\ ~StaleInsert(p)
     /\ scanLog' = Append(scanLog, LogRow(u, t, loc[p].hint_id, TRUE, "", 0, loc[p].t0))
     /\ IF r > 0
          THEN /\ ledger' = Append(ledger, LedgerRow(u, r, "", ""))
               /\ points' = [points EXCEPT ![u] = loc[p].current_points + r]
          ELSE UNCHANGED <<ledger, points>>
     /\ IF h # ""
          THEN stageProg' = [stageProg EXCEPT ![u][hint_stage[h]] =
                               Touched(@, loc[p].stage_progress)]
          ELSE UNCHANGED stageProg
     /\ rowLock' = Released(p)
     /\ IF h # "" THEN Goto(p, "scan_next", loc[p]) ELSE Finish(p, ScanAllowed(t))
     /\ UNCHANGED <<stock, contentProg, now, ops>>

\* the next hint of the stage is read and the scan answered
ScanNext(p) ==
  /\ pc[p] = "scan_next"
  /\ Finish(p, ScanAllowed(loc[p].udid))
  /\ UNCHANGED <<ledger, points, stock, rowLock, ops, progVars>>

\* the clock advances by one tick
Tick ==
  /\ now < MaxTime
  /\ now' = now + 1
  /\ UNCHANGED <<ledger, points, stock, rowLock, scanLog, stageProg, contentProg,
                 pc, loc, resp, ops, adminVars>>
\* ---------------------------------------------------------------------------
\* POST /contents/{id}/join, POST /progress/stages/{id}/unlock and /clear.
\* Each of these handlers reads and writes only the caller's own progress
\* rows and commits once; it is one step.

ProgResponse(k, st, d) == [NoResp EXCEPT !.kind = k, !.status = st, !.detail = d]

\* the request is answered without a write
Answer(p, r) ==
  /\ Finish(p, r)
  /\ UNCHANGED <<ledger, points, stock, rowLock, progVars>>

\* the checks of a join that never looks at end_at
JoinRefusalNoEndCheck(c, at) ==
  IF c \notin Contents THEN <<404, "Content not found">>
  ELSE IF ~content_is_open[c] THEN <<400, "Content is not open">>
  ELSE IF /\ ~content_is_always_on[c]
          /\ ~IsNull(content_start_at[c])
          /\ Val(content_start_at[c]) > at
    THEN <<400, "Content has not started yet">>
  ELSE <<200, "">>

\* the checks join_content makes before it looks for the user's row, in the
\* code's order, at time at: the status and detail of the HTTPException raised,
\* or <<200, "">> when none is raised
JoinRefusal(c, at) ==
  IF c \notin Contents THEN <<404, "Content not found">>
  ELSE IF ~content_is_open[c] THEN <<400, "Content is not open">>
  ELSE IF /\ ~content_is_always_on[c]
          /\ ~IsNull(content_start_at[c])
          /\ Val(content_start_at[c]) > at
    THEN <<400, "Content has not started yet">>
  ELSE IF /\ ~content_is_always_on[c]
          /\ ~IsNull(content_end_at[c])
          /\ Val(content_end_at[c]) < at
    THEN <<400, "Content has ended">>
  ELSE <<200, "">>

JoinContent(p, u, c) ==
  /\ CanStart(p)
  /\ ops' = ops + 1
  /\ IF JoinRefusal(c, now)[1] # 200
       THEN Answer(p, ProgResponse("join", JoinRefusal(c, now)[1], JoinRefusal(c, now)[2]))
     ELSE IF contentProg[u][c].status # "none"
       THEN Answer(p, ProgResponse("join", 200, contentProg[u][c].status))
     ELSE /\ contentProg' = [contentProg EXCEPT ![u][c] =
                               [NoContentRow EXCEPT !.status = "in_progress",
                                                    !.joined_at = Some(now)]]
          /\ Finish(p, ProgResponse("join", 200, "in_progress"))
          /\ UNCHANGED <<ledger, points, stock, rowLock, scanLog, stageProg, now>>

\* an unlock that never takes the row for unlocked already
AlreadyUnlockedNever(row) == FALSE

\* the stage has a progress row whose status is not locked
AlreadyUnlocked(row) == row.status \notin {"none", "locked"}

UnlockStage(p, u, s) ==
  /\ CanStart(p)
  /\ ops' = ops + 1
  /\ IF s \notin Stages
       THEN Answer(p, ProgResponse("unlock", 404, "Stage not found"))
     ELSE IF contentProg[u][stage_content[s]].status = "none"
       THEN Answer(p, ProgResponse("unlock", 400, "User has not joined this content"))
     ELSE IF AlreadyUnlocked(stageProg[u][s])
       THEN Answer(p, [ProgResponse("unlock", 200, "") EXCEPT !.unlocked = TRUE])
     ELSE IF /\ stage_unlock_stage_id[s] # ""
             /\ stageProg[u][stage_unlock_stage_id[s]].status # "cleared"
       THEN Answer(p, ProgResponse("unlock", 400, "Required stage not cleared"))
     ELSE /\ stageProg' = [stageProg EXCEPT ![u][s] =
                             [@ EXCEPT !.status = "unlocked", !.unlock_at = Some(now)]]
          /\ Finish(p, [ProgResponse("unlock", 200, "") EXCEPT !.unlocked = TRUE])
          /\ UNCHANGED <<ledger, points, stock, rowLock, scanLog, contentProg, now>>

\* the ledger entries recorded for user u and stage s, as RewardInfo.coin_delta
RECURSIVE ExistingRewards(_, _, _)
ExistingRewards(rows, u, s) ==
  IF rows = <<>> THEN <<>>
  ELSE IF Head(rows).user_id = u /\ Head(rows).stage_id = s
         THEN <<Head(rows).coin_delta>> \o ExistingRewards(Tail(rows), u, s)
         ELSE ExistingRewards(Tail(rows), u, s)

\* a second clear that stamps cleared_at again
ClearAgainRestamps(p, u, s) ==
  /\ Finish(p, [ProgResponse("clear", 200, "") EXCEPT
                  !.cleared = TRUE, !.rewards = ExistingRewards(ledger, u, s)])
  /\ stageProg' = [stageProg EXCEPT ![u][s].cleared_at = Some(now)]
  /\ UNCHANGED <<ledger, points, stock, rowLock, scanLog, contentProg, now>>

\* the stage is cleared already: the recorded rewards are returned
ClearAgain(p, u, s) ==
  Answer(p, [ProgResponse("clear", 200, "") EXCEPT
               !.cleared = TRUE, !.rewards = ExistingRewards(ledger, u, s)])

\* a clear that leaves a locked row as it is
ClearedRowUnlessLocked(row, bt) ==
  IF row.status = "locked" THEN row
  ELSE [(IF row.status = "none" THEN [NoRow EXCEPT !.unlock_at = Some(now)] ELSE row)
          EXCEPT !.status = "cleared", !.cleared_at = Some(now)]

\* the row a clear writes: created cleared, or overwritten to cleared; the
\* requested best time replaces the stored one only when strictly smaller
ClearedRow(row, bt) ==
  LET r == IF row.status = "none"
             THEN [NoRow EXCEPT !.status = "cleared", !.unlock_at = Some(now),
                                !.cleared_at = Some(now)]
             ELSE [row EXCEPT !.status = "cleared", !.cleared_at = Some(now)]
  IN IF ~IsNull(bt) /\ (IsNull(r.best_time_sec) \/ Val(bt) < Val(r.best_time_sec))
       THEN [r EXCEPT !.best_time_sec = bt]
       ELSE r

\* the top-level stages of content c
AllStageIds(c) == {x \in Stages : stage_content[x] = c /\ stage_parent[x] = ""}

\* the top-level stages cleared in the database, the current one left out,
\* with the current stage added
ClearedStageIds(u, s) ==
  {x \in AllStageIds(stage_content[s]) : x # s /\ stageProg[u][x].status = "cleared"}
    \cup {s}

ClearStage(p, u, s, bt) ==
  /\ CanStart(p)
  /\ ops' = ops + 1
  /\ IF s \notin Stages
       THEN Answer(p, ProgResponse("clear", 404, "Stage not found"))
     ELSE IF stageProg[u][s].status = "cleared"
       THEN ClearAgain(p, u, s)
     ELSE
       LET c == stage_content[s]
           content_cleared ==
             Cardinality(ClearedStageIds(u, s)) = Cardinality(AllStageIds(c))
       IN /\ stageProg' = [stageProg EXCEPT ![u][s] = ClearedRow(@, bt)]
          /\ IF content_cleared /\ contentProg[u][c].status # "none"
               THEN contentProg' = [contentProg EXCEPT ![u][c] =
                                      [@ EXCEPT !.status = "cleared",
                                                !.cleared_at = Some(now)]]
               ELSE UNCHANGED contentProg
          /\ Finish(p, [ProgResponse("clear", 200, "") EXCEPT
                          !.cleared = TRUE,
                          !.content_cleared = content_cleared,
                          !.next_content =
                            IF /\ content_cleared
                               /\ content_has_next_content[c]
                               /\ content_next_content_id[c] # ""
                              THEN content_next_content_id[c] ELSE ""])
          /\ UNCHANGED <<ledger, points, stock, rowLock, scanLog, now>>

\* ---------------------------------------------------------------------------
\* POST /nfc/verify-location (verify_location)

\* ST_Distance of two positions, in metres
Distance(a, b) == Abs(a - b)

\* the radius test with the boundary left out
WithinRadiusStrict(dist, r) == ~(dist >= r)

\* the radius test: denied when distance_meters > radius_m
WithinRadius(dist, r) == ~(dist > r)

VerifyDenied(why, dist) ==
  [NoResp EXCEPT !.kind = "verify", !.status = 200, !.detail = why, !.distance = dist]

\* a location check that admits a user once per stage only
VerifyLocationOnce(p, u, h, x) ==
  /\ CanStart(p)
  /\ ops' = ops + 1
  /\ IF h \notin Hints
       THEN Answer(p, VerifyDenied("Hint not found", 0))
     ELSE IF IsNull(hint_location[h]) \/ IsNull(hint_radius_m[h]) \/ Val(hint_radius_m[h]) = 0
       THEN Answer(p, VerifyDenied("location verification not configured", 0))
     ELSE IF ~WithinRadius(Distance(Val(hint_location[h]), x), Val(hint_radius_m[h]))
       THEN Answer(p, VerifyDenied("Not within target area",
                                   Distance(Val(hint_location[h]), x)))
     ELSE IF stageProg[u][hint_stage[h]].nfc_count > 0
       THEN Answer(p, VerifyDenied("Usage limit reached", 0))
     ELSE /\ Goto(p, IF hint_reward_coin[h] > 0 THEN "verify_lock_user"
                     ELSE "verify_progress",
                  [Loc0 EXCEPT !.kind = "verify", !.user = u, !.hint_id = h, !.hint = h])
          /\ UNCHANGED <<ledger, points, stock, rowLock, progVars>>

\* the hint lookup, the configuration check and the radius test; a position
\* within the radius goes on to the grant
VerifyLocation(p, u, h, x) ==
  /\ CanStart(p)
  /\ ops' = ops + 1
  /\ IF h \notin Hints
       THEN Answer(p, VerifyDenied("Hint not found", 0))
     ELSE IF IsNull(hint_location[h]) \/ IsNull(hint_radius_m[h]) \/ Val(hint_radius_m[h]) = 0
       THEN Answer(p, VerifyDenied("location verification not configured", 0))
     ELSE IF ~WithinRadius(Distance(Val(hint_location[h]), x), Val(hint_radius_m[h]))
       THEN Answer(p, VerifyDenied("Not within target area",
                                   Distance(Val(hint_location[h]), x)))
     ELSE /\ Goto(p, IF hint_reward_coin[h] > 0 THEN "verify_lock_user"
                     ELSE "verify_progress",
                  [Loc0 EXCEPT !.kind = "verify", !.user = u, !.hint_id = h, !.hint = h])
          /\ UNCHANGED <<ledger, points, stock, rowLock, progVars>>

\* the point grant: the users row is locked and the cached balance read
VerifyLockUser(p) ==
  /\ pc[p] = "verify_lock_user"
  /\ LockFree(loc[p].user, p)
  /\ rowLock' = Locked(loc[p].user, p)
  /\ Goto(p, "verify_progress", [loc[p] EXCEPT !.current_points = points[loc[p].user]])
  /\ UNCHANGED <<ledger, points, stock, ops, progVars>>

\* the stage progress row of the hint's stage is read
VerifyProgress(p) ==
  /\ pc[p] = "verify_progress"
  /\ Goto(p, "verify_commit",
          [loc[p] EXCEPT !.stage_progress = stageProg[loc[p].user][hint_stage[loc[p].hint]]])
  /\ UNCHANGED <<ledger, points, stock, rowLock, ops, progVars>>

\* the transaction commits: the ledger row and the cache when the hint pays,
\* and the progress row; the next hint is still to be looked up
VerifyCommit(p) ==
  LET u == loc[p].user
      h == loc[p].hint
      r == hint_reward_coin[h]
  IN /\ pc[p] = "verify_commit"
     /\ ~StaleInsert(p)
     /\ IF r > 0
          THEN /\ ledger' = Append(ledger, LedgerRow(u, r, "", ""))
               /\ points' = [points EXCEPT ![u] = loc[p].current_points + r]
          ELSE UNCHANGED <<ledger, points>>
     /\ stageProg' = [stageProg EXCEPT ![u][hint_stage[h]] =
                        Touched(@, loc[p].stage_progress)]
     /\ rowLock' = Released(p)
     /\ Goto(p, "verify_next", loc[p])
     /\ UNCHANGED <<stock, scanLog, contentProg, now, ops>>

\* the next hint of the stage is read and the verification answered
VerifyNext(p) ==
  /\ pc[p] = "verify_next"
  /\ Finish(p, [NoResp EXCEPT !.kind = "verify", !.status = 200, !.allowed = TRUE,
                              !.point_reward = hint_reward_coin[loc[p].hint]])
  /\ UNCHANGED <<ledger, points, stock, rowLock, ops, progVars>>

\* ------------------------------------------------------------------ Spec
InitBalances == {1, 3}

\* ---------------------------------------------------------------------------
\* Admin hints: POST /admin/stages/{id}/hints, PATCH and DELETE
\* /admin/stages/hints/{id}. A request reads the committed rows, and its
\* writes to stage_hints and stages.uses_nfc are applied at its commit.

\* the nfc_id of a create request (Null = none)
NfcArgs == {Null, Some("t1"), Some("t2"), Some(MissingTag)}
\* the nfc_id of an update request: Null when the field is not supplied
NfcUpdateArgs == {Null} \cup {Some(n) : n \in NfcArgs \ {Some("t2")}}

LiveHints == {h \in HintKeys : stageHints[h].state = "live"}

\* select(StageHint).where(stage_id == s, nfc_id == n, id != h)
HintsWithTag(s, n, h) ==
  {k \in LiveHints \ {h} : stageHints[k].stage_id = s /\ stageHints[k].nfc_id = n}

\* select(func.count(StageHint.id)).where(stage_id == s, nfc_id IS NOT NULL,
\* id != h)
OtherNfcHints(s, h) ==
  Cardinality({k \in LiveHints \ {h} :
                 stageHints[k].stage_id = s /\ ~IsNull(stageHints[k].nfc_id)})

\* the id of the next row inserted
FreshKey ==
  NewHintKeys[CHOOSE i \in 1..Len(NewHintKeys) :
                /\ stageHints[NewHintKeys[i]].state = "free"
                /\ \A j \in 1..(i - 1) : stageHints[NewHintKeys[j]].state # "free"]

\* the assignment to stage.uses_nfc of a request, applied at its commit
WriteUsesNfc(l) ==
  IF IsNull(l.set_uses_nfc) THEN uses_nfc
  ELSE [uses_nfc EXCEPT ![l.stage_id] = Val(l.set_uses_nfc)]

\* create_hint up to the commit: the stage and the tag are looked up, the tag
\* must not be bound to another hint of the same stage
CreateHint(p, s, n) ==
  /\ CanStart(p)
  \* an id is left for this request and for every create request in flight
  /\ Cardinality({h \in HintKeys : stageHints[h].state = "free"})
       > Cardinality({q \in Procs : pc[q] = "hint_create_commit"})
  /\ ops' = ops + 1
  /\ IF s \notin Stages
       THEN Finish(p, Response("create_hint", 404, "Stage not found", 0))
       ELSE IF ~IsNull(n) /\ Val(n) \notin Tags
       THEN Finish(p, Response("create_hint", 404, "NFC tag not found", 0))
       ELSE IF ~IsNull(n) /\ Cardinality(HintsWithTag(s, n, "")) > 1
       THEN Finish(p, Response("create_hint", 500, "MultipleResultsFound", 0))
       ELSE IF ~IsNull(n) /\ HintsWithTag(s, n, "") # {}
       THEN Finish(p, Response("create_hint", 409, "NFC tag already bound", 0))
       ELSE Goto(p, "hint_create_commit",
                 [Loc0 EXCEPT !.kind = "create_hint", !.stage_id = s, !.nfc_id = n,
                              !.set_uses_nfc = IF IsNull(n) THEN Null ELSE Some(TRUE)])
  /\ UNCHANGED <<ledger, points, stock, rowLock, progVars>>

\* db.flush([hint]) and db.commit()
CreateHintCommit(p) ==
  /\ pc[p] = "hint_create_commit"
  /\ stageHints' = [stageHints EXCEPT
                      ![FreshKey] = HintRow(loc[p].stage_id, loc[p].nfc_id)]
  /\ uses_nfc' = WriteUsesNfc(loc[p])
  /\ Reply(p, Response("create_hint", 200, "", 0))
  /\ UNCHANGED <<ledger, points, stock, rowLock, ops, progVars, userRows, lastDeleted>>

\* update_hint up to the commit; arg is the nfc_id field of the request
UpdateHint(p, h, arg) ==
  LET hint == stageHints[h]
      s == hint.stage_id
      supplied == ~IsNull(arg)
      new == IF supplied THEN Val(arg) ELSE Null
      set == IF ~supplied THEN Null
             ELSE IF ~IsNull(new)
                    THEN (IF ~uses_nfc[s] THEN Some(TRUE) ELSE Null)
             ELSE IF ~IsNull(hint.nfc_id) /\ OtherNfcHints(s, h) = 0
                    THEN Some(FALSE)
             ELSE Null
  IN
  /\ CanStart(p)
  /\ ops' = ops + 1
  /\ IF hint.state # "live"
       THEN Finish(p, Response("update_hint", 404, "Hint not found", 0))
       ELSE IF ~IsNull(new) /\ Val(new) \notin Tags
       THEN Finish(p, Response("update_hint", 404, "New NFC tag not found", 0))
       ELSE IF ~IsNull(new) /\ Cardinality(HintsWithTag(s, new, h)) > 1
       THEN Finish(p, Response("update_hint", 500, "MultipleResultsFound", 0))
       ELSE IF ~IsNull(new) /\ HintsWithTag(s, new, h) # {}
       THEN Finish(p, Response("update_hint", 409, "NFC tag already bound", 0))
       ELSE Goto(p, "hint_update_commit",
                 [Loc0 EXCEPT !.kind = "update_hint", !.hint_id = h, !.stage_id = s,
                              !.nfc_change = supplied, !.nfc_id = new,
                              !.set_uses_nfc = set])
  /\ UNCHANGED <<ledger, points, stock, rowLock, progVars>>

\* db.commit() of update_hint and the select that follows it; the UPDATE of a
\* row deleted in the meantime matches nothing and the commit fails
UpdateHintCommit(p) ==
  /\ pc[p] = "hint_update_commit"
  /\ IF stageHints[loc[p].hint_id].state # "live"
       THEN /\ Reply(p, IF loc[p].nfc_change
                          THEN Response("update_hint", 500, "Database commit error", 0)
                          ELSE Response("update_hint", 404, "Hint not found after update", 0))
            /\ UNCHANGED <<stageHints, uses_nfc>>
       ELSE /\ stageHints' = IF loc[p].nfc_change
                                THEN [stageHints EXCEPT ![loc[p].hint_id].nfc_id = loc[p].nfc_id]
                                ELSE stageHints
            /\ uses_nfc' = WriteUsesNfc(loc[p])
            /\ Reply(p, Response("update_hint", 200, "", 0))
  /\ UNCHANGED <<ledger, points, stock, rowLock, ops, progVars, userRows, lastDeleted>>

\* delete_hint up to the commit
DeleteHint(p, h) ==
  LET hint == stageHints[h]
      s == hint.stage_id
  IN
  /\ CanStart(p)
  /\ ops' = ops + 1
  /\ IF hint.state # "live"
       THEN Finish(p, Response("delete_hint", 404, "Hint not found", 0))
       ELSE Goto(p, "hint_delete_commit",
                 [Loc0 EXCEPT !.kind = "delete_hint", !.hint_id = h, !.stage_id = s,
                              !.set_uses_nfc =
                                 IF ~IsNull(hint.nfc_id) /\ OtherNfcHints(s, h) = 0
                                   THEN Some(FALSE) ELSE Null])
  /\ UNCHANGED <<ledger, points, stock, rowLock, progVars>>

\* db.commit() of delete_hint
DeleteHintCommit(p) ==
  /\ pc[p] = "hint_delete_commit"
  /\ stageHints' = [stageHints EXCEPT ![loc[p].hint_id].state = "deleted"]
  /\ uses_nfc' = WriteUsesNfc(loc[p])
  /\ Reply(p, Response("delete_hint", 204, "", 0))
  /\ UNCHANGED <<ledger, points, stock, rowLock, ops, progVars, userRows, lastDeleted>>

\* ---------------------------------------------------------------------------
\* Accounts: DELETE /me, PATCH /me, PATCH /admin/users/{id} and the purge job.

\* the length of a day in ticks
TicksPerDay == 86400 * TicksPerSec

\* the retention period of cleanup_deleted_users.py
RETENTION_DAYS == 30

\* get_current_user: the caller's row exists and its status is active
IsActive(u) == userRows[u].status = "active"

\* the status field of an admin user update: "" when not supplied
StatusArgs == {"", "active", "blocked", "deleted", "paused"}

\* the profile field of a profile update: Null when the field is not supplied,
\* Some(Null) for a profile that carries no points key, Some(Some(n)) for one
\* that carries points = n
ProfileArgs == {Null, Some(Null), Some(Some(5))}

\* DELETE /me: the status becomes deleted and deleted_at the time of the call
DeleteMyAccount(p, u) ==
  /\ pc[p] = "idle"
  /\ IF ~IsActive(u)
       THEN /\ Reply(p, Response("delete_account", 401, "inactive", 0))
            /\ UNCHANGED <<userRows, lastDeleted>>
       ELSE /\ userRows' = [userRows EXCEPT ![u] =
                              [status |-> "deleted", deleted_at |-> Some(now)]]
            /\ lastDeleted' = [lastDeleted EXCEPT ![u] = Some(now)]
            /\ Reply(p, Response("delete_account", 204, "", 0))
  /\ UNCHANGED <<ledger, points, stock, rowLock, ops, progVars, stageHints, uses_nfc>>

\* PATCH /me: the profile of the request is merged into the caller's profile
\* (profile.update(...), or the assignment when the caller has none)
UpdateMyProfile(p, u, pr) ==
  /\ pc[p] = "idle"
  /\ IF ~IsActive(u)
       THEN /\ Reply(p, Response("update_profile", 401, "inactive", 0))
            /\ UNCHANGED points
       ELSE /\ points' = IF ~IsNull(pr) /\ ~IsNull(Val(pr))
                            THEN [points EXCEPT ![u] = Val(Val(pr))]
                            ELSE points
            /\ Reply(p, [Response("update_profile", 200, "", 0)
                           EXCEPT !.remaining_points = LedgerSum(u)])
  /\ UNCHANGED <<ledger, stock, rowLock, ops, progVars, adminVars>>

\* PATCH /admin/users/{id}: every supplied field is assigned to the row; a
\* supplied profile replaces the stored one
AdminUpdateUser(p, u, st, pr) ==
  /\ pc[p] = "idle"
  /\ IF userRows[u] = NoUser
       THEN /\ Reply(p, Response("update_user", 404, "User not found", 0))
            /\ UNCHANGED <<userRows, lastDeleted, points>>
       ELSE IF st \notin {"", "active", "blocked", "deleted"}
       THEN /\ Reply(p, Response("update_user", 400, "Invalid status", 0))
            /\ UNCHANGED <<userRows, lastDeleted, points>>
       ELSE /\ userRows' = IF st = "" THEN userRows
                            ELSE [userRows EXCEPT ![u].status = st]
            /\ lastDeleted' = IF st = "deleted" /\ userRows[u].status # "deleted"
                                 THEN [lastDeleted EXCEPT ![u] = Some(now)]
                                 ELSE lastDeleted
            /\ points' = IF IsNull(pr) THEN points
                          ELSE [points EXCEPT ![u] =
                                  \* profile.get("points", 0)
                                  IF IsNull(Val(pr)) THEN 0 ELSE Val(Val(pr))]
            /\ Reply(p, Response("update_user", 200, "", 0))
  /\ UNCHANGED <<ledger, stock, rowLock, ops, progVars, stageHints, uses_nfc>>

\* the rows the purge job deletes: status deleted, deleted_at set and earlier
\* than now() - RETENTION_DAYS days
Purged ==
  {u \in Users : /\ userRows[u].status = "deleted"
                  /\ ~IsNull(userRows[u].deleted_at)
                  /\ Val(userRows[u].deleted_at) < now - RETENTION_DAYS * TicksPerDay}

\* cleanup_task: the rows are deleted; the ledger, progress and profile of the
\* user go with the row (ON DELETE CASCADE), the scan log keeps its rows with
\* user_id NULL (ON DELETE SET NULL)
PurgeJob ==
  /\ userRows' = [u \in Users |-> IF u \in Purged THEN NoUser ELSE userRows[u]]
  /\ ledger' = SelectSeq(ledger, LAMBDA row : row.user_id \notin Purged)
  /\ points' = [u \in Users |-> IF u \in Purged THEN 0 ELSE points[u]]
  /\ stageProg' = [u \in Users |->
                     IF u \in Purged THEN [x \in Stages |-> NoRow] ELSE stageProg[u]]
  /\ contentProg' = [u \in Users |->
                       IF u \in Purged THEN [c \in Contents |-> NoContentRow]
                       ELSE contentProg[u]]
  /\ scanLog' = [i \in 1..Len(scanLog) |->
                   IF scanLog[i].user_id \in Purged
                     THEN [scanLog[i] EXCEPT !.user_id = ""] ELSE scanLog[i]]
  /\ UNCHANGED <<stock, rowLock, now, pc, loc, resp, ops, lastDeleted, stageHints,
                 uses_nfc>>

\* a day passes
PassDay ==
  /\ now < MaxDays * TicksPerDay
  /\ now' = now + TicksPerDay
  /\ UNCHANGED <<ledger, points, stock, rowLock, scanLog, stageProg, contentProg,
                 pc, loc, resp, ops, adminVars>>

\* every user's ledger holds one opening entry and the cache agrees with it;
\* st tags the entry of u1 with a stage (a stage reward paid by an earlier
\* revision of clear_stage) or is "";
\* r1 is a limited item, r2 an unlimited one, r3 a deactivated one
InitWith(b, s, st) ==
  /\ ledger = <<LedgerRow("u1", b["u1"], st, ""), LedgerRow("u2", b["u2"], "", "")>>
  /\ points = b
  /\ stock = [r \in Rewards |-> IF r = "r2" THEN Null ELSE Some(s)]
  /\ rowLock = [row \in Rewards \cup Users |-> 0]
  /\ scanLog = <<>>
  /\ stageProg = [u \in Users |-> [x \in Stages |-> NoRow]]
  /\ contentProg = [u \in Users |-> [c \in Contents |-> NoContentRow]]
  /\ now = 0
  /\ pc = [p \in Procs |-> "idle"]
  /\ loc = [p \in Procs |-> Loc0]
  /\ resp = [p \in Procs |-> NoResp]
  /\ ops = 0
  /\ InitAdmin

Init == \E b \in [Users -> InitBalances] : InitWith(b, 1, "")

Next ==
  \E p \in Procs :
    \/ \E u \in Users, r \in RewardIds : ConsumeLockReward(p, u, r)
    \/ ConsumeReadSum(p)
    \/ ConsumeLockUser(p)
    \/ ConsumeCommit(p)
    \/ \E u \in Users, r \in RewardIds : RedeemLockReward(p, u, r)
    \/ RedeemLockUser(p)
    \/ RedeemCommit(p)
    \/ \E u \in Users, d \in AdjustDeltas : AdjustMyReadSum(p, u, d)
    \/ AdjustMyUpdate(p)
    \/ AdjustMyCommit(p)
    \/ \E u \in Users, d \in AdjustDeltas : AdjustUserRead(p, u, d)
    \/ AdjustUserCommit(p)
    \/ Fail(p)

Spec == Init /\ [][Next]_vars

\* ----------------------------------------------------------- SpecRedeem
\* redemption requests only, through either endpoint, by any user for any
\* item; any of them may fail with an error
NextRedeem ==
  \E p \in Procs :
    \/ \E u \in Users, r \in RewardIds : ConsumeLockReward(p, u, r)
    \/ ConsumeReadSum(p)
    \/ ConsumeLockUser(p)
    \/ ConsumeCommit(p)
    \/ \E u \in Users, r \in RewardIds : RedeemLockReward(p, u, r)
    \/ RedeemLockUser(p)
    \/ RedeemCommit(p)
    \/ Fail(p)

SpecRedeem == Init /\ [][NextRedeem]_vars

\* ------------------------------------------------------------- SpecRace
\* NProcs redemption requests, one per slot and through either endpoint,
\* fired at the limited item r1 while one piece is left; every user can pay
RaceBalances == {2, 3}

InitRace == \E b \in [Users -> RaceBalances] : InitWith(b, 1, "")

NextRace ==
  \E p \in Procs :
    \/ /\ resp[p] = NoResp
       /\ \E u \in Users : ConsumeLockReward(p, u, "r1")
    \/ ConsumeReadSum(p)
    \/ ConsumeLockUser(p)
    \/ ConsumeCommit(p)
    \/ /\ resp[p] = NoResp
       /\ \E u \in Users : RedeemLockReward(p, u, "r1")
    \/ RedeemLockUser(p)
    \/ RedeemCommit(p)

SpecRace == InitRace /\ [][NextRace]_vars
\* Scans issued one after the other by one user on one connection, with the
\* clock running.
ScanUser == "u1"

InitScan == InitWith([u \in Users |-> 1], 1, "")

NextScan ==
  \/ \E t \in Udids, h \in HintArgs : ScanNfc(1, ScanUser, t, h)
  \/ ScanLockUser(1)
  \/ ScanProgress(1)
  \/ ScanCommit(1)
  \/ ScanNext(1)
  \/ Tick

SpecScan == InitScan /\ [][NextScan]_vars

\* Scans issued one after the other, any of which may fail at any statement.
NextScanFail ==
  \/ \E t \in Udids, h \in HintArgs : ScanNfc(1, ScanUser, t, h)
  \/ ScanLockUser(1)
  \/ ScanProgress(1)
  \/ ScanCommit(1)
  \/ ScanNext(1)
  \/ Fail(1)
  \/ Tick

SpecScanFail == InitScan /\ [][NextScanFail]_vars

\* Every operation that writes the ledger or may be thought to (redemption,
\* point adjustment by the player and by an admin, scan, location
\* verification, stage clear), one call after the other, each of which may
\* fail at any statement.
NextLedger ==
  \/ \E r \in RewardIds : ConsumeLockReward(1, ScanUser, r)
  \/ ConsumeReadSum(1)
  \/ ConsumeLockUser(1)
  \/ ConsumeCommit(1)
  \/ \E r \in RewardIds : RedeemLockReward(1, ScanUser, r)
  \/ RedeemLockUser(1)
  \/ RedeemCommit(1)
  \/ \E d \in AdjustDeltas : AdjustMyReadSum(1, ScanUser, d)
  \/ AdjustMyUpdate(1)
  \/ AdjustMyCommit(1)
  \/ \E d \in AdjustDeltas : AdjustUserRead(1, ScanUser, d)
  \/ AdjustUserCommit(1)
  \/ \E t \in Udids, h \in HintArgs : ScanNfc(1, ScanUser, t, h)
  \/ ScanLockUser(1)
  \/ ScanProgress(1)
  \/ ScanCommit(1)
  \/ ScanNext(1)
  \/ \E h \in HintIds, x \in Points : VerifyLocation(1, ScanUser, h, x)
  \/ VerifyLockUser(1)
  \/ VerifyProgress(1)
  \/ VerifyCommit(1)
  \/ VerifyNext(1)
  \/ \E s \in StageIds, bt \in BestTimes : ClearStage(1, ScanUser, s, bt)
  \/ Fail(1)

SpecLedger == InitScan /\ [][NextLedger]_vars

\* Location verifications issued one after the other, by any user.
NextVerify ==
  \/ \E u \in Users, h \in HintIds, x \in Points : VerifyLocation(1, u, h, x)
  \/ VerifyLockUser(1)
  \/ VerifyProgress(1)
  \/ VerifyCommit(1)
  \/ VerifyNext(1)

SpecVerify == InitScan /\ [][NextVerify]_vars

\* Joining, unlocking and clearing by one user, one call after the other,
\* with the clock running. The ledger entry of the user may carry the stage sA.
ProgUser == "u1"
LegacyStageTags == {"", "sA"}

InitProgress == \E st \in LegacyStageTags : InitWith([u \in Users |-> 1], 1, st)

NextProgress ==
  \/ \E c \in StageContentIds : JoinContent(1, ProgUser, c)
  \/ \E s \in StageIds : UnlockStage(1, ProgUser, s)
  \/ \E s \in StageIds, bt \in BestTimes : ClearStage(1, ProgUser, s, bt)
  \/ Tick

SpecProgress == InitProgress /\ [][NextProgress]_vars

\* The same with the scans of the user, which write stage progress rows too.
NextStages ==
  \/ \E c \in StageContentIds : JoinContent(1, ProgUser, c)
  \/ \E s \in StageIds : UnlockStage(1, ProgUser, s)
  \/ \E s \in StageIds, bt \in BestTimes : ClearStage(1, ProgUser, s, bt)
  \/ \E t \in Udids, h \in HintArgs : ScanNfc(1, ProgUser, t, h)
  \/ ScanLockUser(1)
  \/ ScanProgress(1)
  \/ ScanCommit(1)
  \/ ScanNext(1)
  \/ Tick

SpecStages == InitProgress /\ [][NextStages]_vars

\* ----------------------------------------------------------- SpecStatus
\* Every call that writes a stage progress row, by one user at one instant.
\* The stage rows of the user start absent or locked: no handler writes the
\* status locked, which unlock_stage expects to find in rows made elsewhere.
\* The user has joined c1 before, or has not.
InitStatus ==
  /\ ledger = <<LedgerRow("u1", 1, "", ""), LedgerRow("u2", 1, "", "")>>
  /\ points = [u \in Users |-> 1]
  /\ stock = [r \in Rewards |-> IF r = "r2" THEN Null ELSE Some(1)]
  /\ rowLock = [row \in Rewards \cup Users |-> 0]
  /\ scanLog = <<>>
  /\ \E st \in [Stages -> {"none", "locked"}] :
       stageProg = [u \in Users |-> [x \in Stages |->
                      IF u = ProgUser THEN [NoRow EXCEPT !.status = st[x]] ELSE NoRow]]
  /\ \E joined \in BOOLEAN :
       contentProg = [u \in Users |-> [c \in Contents |->
                        IF joined /\ u = ProgUser /\ c = "c1"
                          THEN [NoContentRow EXCEPT !.status = "in_progress",
                                                    !.joined_at = Some(0)]
                          ELSE NoContentRow]]
  /\ now = 0
  /\ pc = [p \in Procs |-> "idle"]
  /\ loc = [p \in Procs |-> Loc0]
  /\ resp = [p \in Procs |-> NoResp]
  /\ ops = 0
  /\ InitAdmin

NextStatus ==
  \/ \E c \in StageContentIds : JoinContent(1, ProgUser, c)
  \/ \E s \in StageIds : UnlockStage(1, ProgUser, s)
  \/ \E s \in StageIds, bt \in BestTimes : ClearStage(1, ProgUser, s, bt)
  \/ \E t \in Udids, h \in HintArgs : ScanNfc(1, ProgUser, t, h)
  \/ ScanLockUser(1)
  \/ ScanProgress(1)
  \/ ScanCommit(1)
  \/ ScanNext(1)
  \/ \E h \in HintIds, x \in Points : VerifyLocation(1, ProgUser, h, x)
  \/ VerifyLockUser(1)
  \/ VerifyProgress(1)
  \/ VerifyCommit(1)
  \/ VerifyNext(1)

SpecStatus == InitStatus /\ [][NextStatus]_vars

\* ---------------------------------------------------------- SpecAccounts
\* One user leaves and is restored, blocked or deleted by the admin while the
\* days pass and the purge job runs.
NextAccounts ==
  \/ DeleteMyAccount(1, ScanUser)
  \/ \E st \in StatusArgs, pr \in ProfileArgs : AdminUpdateUser(1, ScanUser, st, pr)
  \/ PurgeJob
  \/ PassDay

SpecAccounts == InitScan /\ [][NextAccounts]_vars

\* ----------------------------------------------------------- SpecProfile
\* The operations of one user that append no ledger entry, and the admin's
\* update of that user.
NextProfile ==
  \/ \E pr \in ProfileArgs : UpdateMyProfile(1, ScanUser, pr)
  \/ \E st \in StatusArgs, pr \in ProfileArgs : AdminUpdateUser(1, ScanUser, st, pr)
  \/ \E c \in StageContentIds : JoinContent(1, ScanUser, c)
  \/ \E x \in StageIds : UnlockStage(1, ScanUser, x)
  \/ \E x \in StageIds, bt \in BestTimes : ClearStage(1, ScanUser, x, bt)

SpecProfile == InitScan /\ [][NextProfile]_vars

\* ------------------------------------------------------------- SpecHints
\* The admin creates, updates and deletes hints on NProcs connections.
NextHints ==
  \E p \in Procs :
    \/ \E s \in {"sA", "sB", MissingStage}, n \in NfcArgs : CreateHint(p, s, n)
    \/ CreateHintCommit(p)
    \/ \E h \in HintKeys, arg \in NfcUpdateArgs : UpdateHint(p, h, arg)
    \/ UpdateHintCommit(p)
    \/ \E h \in HintKeys : DeleteHint(p, h)
    \/ DeleteHintCommit(p)

SpecHints == InitScan /\ [][NextHints]_vars

\* ------------------------------------------------------------ SpecAdmit
\* Concurrent scans and in-range location checks of one user, on NProcs
\* connections, all within one tick of the clock: t1 and h1 pay a point and belong to stage sA, t2 and h2 pay
\* nothing and belong to stage sB.
AdmitTags == {"t1", "t2"}

NextAdmit ==
  \/ \E p \in Procs :
       \/ \E t \in AdmitTags : ScanNfc(p, ScanUser, t, "")
       \/ ScanLockUser(p)
       \/ ScanProgress(p)
       \/ ScanCommit(p)
       \/ ScanNext(p)
       \/ \E h \in Hints : VerifyLocation(p, ScanUser, h, Val(hint_location[h]))
       \/ VerifyLockUser(p)
       \/ VerifyProgress(p)
       \/ VerifyCommit(p)
       \/ VerifyNext(p)
       \/ InsertConflict(p)

SpecAdmit == InitScan /\ [][NextAdmit]_vars

\* ------------------------------------------------------------ SpecLocks
\* Concurrent redemptions of one reward (by one user through /rewards/redeem,
\* by the others through /progress/rewards/consume) and scans (paying or not)
\* and paying location checks by that user, on NProcs connections. A request whose first statement waits for
\* the row of a reward holds no lock yet; it starts when it gets the row.
LockRewards == {"r2"}

StartLocks(p) ==
  \/ \E u \in Users \ {ScanUser}, r \in LockRewards : ConsumeLockReward(p, u, r)
  \/ \E r \in LockRewards : RedeemLockReward(p, ScanUser, r)
  \/ \E t \in AdmitTags : ScanNfc(p, ScanUser, t, "")
  \/ VerifyLocation(p, ScanUser, "h1", Val(hint_location["h1"]))

\* the statements that follow the first one of a request
StepLocks(p) ==
  \/ ConsumeReadSum(p)
  \/ ConsumeLockUser(p)
  \/ ConsumeCommit(p)
  \/ RedeemLockUser(p)
  \/ RedeemCommit(p)
  \/ ScanLockUser(p)
  \/ ScanProgress(p)
  \/ ScanCommit(p)
  \/ ScanNext(p)
  \/ VerifyLockUser(p)
  \/ VerifyProgress(p)
  \/ VerifyCommit(p)
  \/ VerifyNext(p)
  \/ InsertConflict(p)

NextLocks == \E p \in Procs : StartLocks(p) \/ StepLocks(p)

\* every connection is served: a request that can take its next statement
\* takes it in the end
SpecLocks ==
  /\ InitScan
  /\ [][NextLocks]_vars
  /\ \A p \in Procs : WF_vars(StepLocks(p))

\* ------------------------------------------------------------- SpecGate
\* Scans issued one after the other, starting with a log that may hold allowed
\* scans made at tick 0: one of t3, made before the tag was deactivated, and
\* one of t2.
GateHistories ==
  {<<>>,
   <<LogRow(ScanUser, "t3", "", TRUE, "", 0, 0)>>,
   <<LogRow(ScanUser, "t3", "", TRUE, "", 0, 0), LogRow(ScanUser, "t2", "h2", TRUE, "", 0, 0)>>}

InitGate ==
  /\ ledger = <<LedgerRow("u1", 1, "", ""), LedgerRow("u2", 1, "", "")>>
  /\ points = [u \in Users |-> 1]
  /\ stock = [r \in Rewards |-> IF r = "r2" THEN Null ELSE Some(1)]
  /\ rowLock = [row \in Rewards \cup Users |-> 0]
  /\ scanLog \in GateHistories
  /\ stageProg = [u \in Users |-> [x \in Stages |-> NoRow]]
  /\ contentProg = [u \in Users |-> [c \in Contents |-> NoContentRow]]
  /\ now = 0
  /\ pc = [p \in Procs |-> "idle"]
  /\ loc = [p \in Procs |-> Loc0]
  /\ resp = [p \in Procs |-> NoResp]
  /\ ops = 0
  /\ InitAdmin

SpecGate == InitGate /\ [][NextScan]_vars

\* ------------------------------------------------------------- SpecJoin
\* Joins only: any user joins any content id, at any time.
NextJoin ==
  \/ \E u \in Users, c \in ContentIds : JoinContent(1, u, c)
  \/ Tick

SpecJoin == InitScan /\ [][NextJoin]_vars

\* ================================================================ claims
Redemptions == {"consume", "redeem"}

\* the step finishes a redemption request of slot p (its response is sent)
RedemptionEnds(p) ==
  /\ pc'[p] = "idle"
  /\ resp'[p].kind \in Redemptions
  /\ \/ pc[p] # "idle"
     \/ ops' # ops /\ resp'[p] # resp[p]

\* the step commits a successful redemption of slot p
RedemptionCommits(p) ==
  /\ pc[p] \in {"consume_commit", "redeem_commit"}
  /\ pc'[p] = "idle"
  /\ resp'[p].status = 200

\* C1: in every reachable state every user's cached profile.points equals
\* the sum of that user's ledger entries.
C1_BalanceConsistency == \A u \in Users : points[u] = LedgerSum(u)

\* C2: a non-null stock_qty never goes below zero, and when NProcs concurrent
\* redemptions of the item with one piece left have all been answered,
\* exactly one succeeded and every other one was denied as out of stock.
C2_StockRace ==
  /\ \A r \in Rewards : IsNull(stock[r]) \/ Val(stock[r]) >= 0
  /\ (\A p \in Procs : resp[p] # NoResp) =>
       /\ Cardinality({p \in Procs : resp[p].status = 200}) = 1
       /\ \A p \in Procs :
            resp[p].status # 200 =>
              resp[p].status = 400 /\ resp[p].detail = "Item out of stock"

C2_Witness ==
  /\ \A p \in Procs : resp[p] # NoResp
  /\ \E p \in Procs : resp[p].status = 200
  /\ \E p \in Procs : resp[p].detail = "Item out of stock"
  /\ stock["r1"] = Some(0)

\* C3: a redemption commits successfully only when the user's ledger balance
\* at the moment of the commit is at least the price, so that the debit never
\* takes the balance below zero.
C3_RedemptionWithinBalance ==
  [][\A p \in Procs :
       RedemptionCommits(p) =>
         LedgerSum(loc[p].user) >= price_coin[loc[p].reward_id]]_vars

\* C4: a redemption that is denied or fails leaves stock, ledger and cached
\* balances as they were, and the stock of an item only ever changes by a
\* decrement of one together with the appended ledger entry of that item.
C4_DeniedRedemptionChangesNothing ==
  /\ [][\A p \in Procs :
          (RedemptionEnds(p) /\ resp'[p].status # 200) =>
            UNCHANGED <<ledger, points, stock>>]_vars
  /\ [][\A r \in Rewards :
          stock'[r] # stock[r] =>
            /\ ~IsNull(stock[r]) /\ stock'[r] = Some(Val(stock[r]) - 1)
            /\ Len(ledger') = Len(ledger) + 1
            /\ ledger'[Len(ledger')].store_reward_id = r
            /\ ledger'[Len(ledger')].coin_delta = -price_coin[r]
            /\ SubSeq(ledger', 1, Len(ledger)) = ledger]_vars

\* a redemption through /rewards/redeem was denied for a short balance (after
\* its transaction had decremented the stock), and one failed with an error
C4_Witness ==
  \E p, q \in Procs :
    /\ resp[p].kind = "redeem" /\ resp[p].detail = "Not enough points"
    /\ resp[q].kind \in Redemptions /\ resp[q].status = 500
    /\ stock["r1"] = Some(1)

\* C5: a successful redemption at price p by a user whose balance is b >= p
\* leaves the balance (ledger and cache) at b - p, decrements a non-null stock
\* by exactly one, appends exactly one entry of -p tagged with the item, and
\* reports remaining_points = b - p.
C5_SuccessfulRedemptionEffect ==
  [][\A p \in Procs :
       (RedemptionCommits(p) /\ LedgerSum(loc[p].user) >= price_coin[loc[p].reward_id]) =>
         LET u == loc[p].user
             r == loc[p].reward_id
             b == LedgerSum(u) IN
           /\ ledger' = Append(ledger, LedgerRow(u, -price_coin[r], "", r))
           /\ points'[u] = b - price_coin[r]
           /\ resp'[p].remaining_points = b - price_coin[r]
           /\ stock'[r] = IF IsNull(stock[r]) THEN Null ELSE Some(Val(stock[r]) - 1)]_vars

\* the scan of slot p passes its gates and goes on to the grant
ScanPasses(p) == pc'[p] \in {"scan_lock_user", "scan_progress", "scan_commit"}

\* ticks since the most recent allowed scan of tag t by user u; -1 when there
\* is none
Elapsed(u, t) ==
  IF AllowedScans(scanLog, u, t) = {} THEN -1
  ELSE now - LatestStamp(scanLog, AllowedScans(scanLog, u, t))

C7_UseLimit ==
  /\ [][\A t \in Tags, h \in HintArgs :
          (/\ tag_is_active[t]
           /\ ~IsNull(tag_use_limit[t])
           /\ ~(Elapsed(ScanUser, t) >= 0
                /\ Elapsed(ScanUser, t) < tag_cooldown_sec[t] * TicksPerSec)
           /\ ScanNfc(1, ScanUser, t, h)) =>
            IF Cardinality(AllowedScans(scanLog, ScanUser, t)) < Val(tag_use_limit[t])
              THEN ScanPasses(1)
              ELSE /\ pc'[1] = "idle"
                   /\ ~resp'[1].allowed
                   /\ resp'[1].detail = "Usage limit reached"]_vars
  /\ [](\A t \in Tags :
          IsNull(tag_use_limit[t])
          \/ Cardinality(AllowedScans(scanLog, ScanUser, t)) <= Val(tag_use_limit[t]))

\* two allowed scans of t2 (use_limit 2) and a third one, outside the
\* cooldown window, denied for the limit
C7_Witness ==
  /\ Cardinality(AllowedScans(scanLog, ScanUser, "t2")) = Val(tag_use_limit["t2"])
  /\ resp[1].kind = "scan"
  /\ resp[1].detail = "Usage limit reached"
  /\ ~resp[1].allowed
  /\ Len(scanLog) = Val(tag_use_limit["t2"]) + 1

\* C8: a clear of a stage whose progress row is cleared already appends no
\* ledger entry, leaves every stage and content progress row as it is, and
\* answers cleared=true with the coin deltas of the ledger entries recorded for
\* the user and the stage.
C8_ReclearIsNoOp ==
  [][\A s \in Stages, bt \in BestTimes :
       (stageProg[ProgUser][s].status = "cleared" /\ ClearStage(1, ProgUser, s, bt)) =>
         LET rows == SelectSeq(ledger, LAMBDA e : e.user_id = ProgUser /\ e.stage_id = s)
         IN /\ ledger' = ledger
            /\ points' = points
            /\ stageProg' = stageProg
            /\ contentProg' = contentProg
            /\ resp'[1].status = 200
            /\ resp'[1].cleared
            /\ resp'[1].rewards = [i \in 1..Len(rows) |-> rows[i].coin_delta]]_vars

\* stage sA, cleared at an earlier tick, is cleared again and the call returns
\* the one entry recorded for it
C8_Witness ==
  /\ stageProg[ProgUser]["sA"].status = "cleared"
  /\ Val(stageProg[ProgUser]["sA"].cleared_at) < now
  /\ resp[1].kind = "clear"
  /\ resp[1].cleared
  /\ resp[1].rewards = <<1>>

\* C9: an unlock call for stage s answers unlocked=true only if the user has
\* joined the content of s and s has no unlock_stage_id or the user's progress
\* on that stage is cleared; otherwise it fails with 400 and changes nothing.
C9_UnlockPrerequisite ==
  [][\A s \in Stages :
       UnlockStage(1, ProgUser, s) =>
         \/ /\ contentProg[ProgUser][stage_content[s]].status # "none"
            /\ \/ stage_unlock_stage_id[s] = ""
               \/ stageProg[ProgUser][stage_unlock_stage_id[s]].status = "cleared"
         \/ /\ resp'[1].status = 400
            /\ ~resp'[1].unlocked
            /\ UNCHANGED <<ledger, points, scanLog, stageProg, contentProg>>]_vars

\* C10: once the user has joined content c, the content progress is cleared
\* exactly when every top-level stage of c is cleared for the user.
C10_ContentClearedIffAllTopLevel ==
  \A c \in Contents :
    contentProg[ProgUser][c].status # "none" =>
      (contentProg[ProgUser][c].status = "cleared"
         <=> \A x \in Stages :
               (stage_content[x] = c /\ stage_parent[x] = "")
                 => stageProg[ProgUser][x].status = "cleared")

\* the verification of slot p passes the radius test and goes on to the grant
VerifyPasses(p) == pc'[p] \in {"verify_lock_user", "verify_progress"}

\* C11: for a hint with a target and a radius r > 0, a location verification
\* at distance d from the target passes exactly when d <= r, a verification
\* that does not pass is answered allowed=false and one that passes and
\* completes is answered allowed=true; so d = 0, r - 1 and r are allowed and r + 1 is not.
C11_Geofence ==
  /\ [][\A u \in Users, h \in Hints, x \in Points :
          (/\ ~IsNull(hint_location[h])
           /\ ~IsNull(hint_radius_m[h])
           /\ Val(hint_radius_m[h]) > 0
           /\ VerifyLocation(1, u, h, x)) =>
            LET d == Abs(x - Val(hint_location[h]))
            IN IF d <= Val(hint_radius_m[h])
                 THEN VerifyPasses(1)
                 ELSE pc'[1] = "idle" /\ ~resp'[1].allowed /\ resp'[1].status = 200]_vars
  /\ [][VerifyNext(1) => resp'[1].allowed]_vars

\* after two allowed verifications of h1 (radius 2) a third one, 3 m from the
\* target, is denied
C11_Witness ==
  /\ stageProg[ScanUser]["sA"].nfc_count = 2
  /\ resp[1].kind = "verify"
  /\ ~resp[1].allowed
  /\ resp[1].distance = Val(hint_radius_m["h1"]) + 1

\* the hint bound to tag t
HintOfTag(t) == CHOOSE x \in Hints : hint_nfc[x] = t

\* C12: when an allowed scan by the user of a tag with point_reward p, bound
\* to a hint of stage ST and resolved to that hint, commits, it appends one
\* scan log row with allowed=true, appends one ledger entry of coin_delta p
\* when p > 0 and none when p = 0, raises the cached balance and the ledger
\* balance by p, and sets nfc_count of the user's progress row on ST to its
\* previous value plus 1, creating the row as in_progress with nfc_count 1
\* when it is absent; no other progress row changes.
C12_AllowedScanEffect ==
  [][\A t \in Tags :
       (/\ ScanCommit(1)
        /\ loc[1].udid = t
        /\ \E x \in Hints : hint_nfc[x] = t
        /\ loc[1].hint = HintOfTag(t)) =>
         LET u == loc[1].user
             pr == tag_point_reward[t]
             st == hint_stage[HintOfTag(t)]
             old == stageProg[u][st]
         IN /\ Len(scanLog') = Len(scanLog) + 1
            /\ SubSeq(scanLog', 1, Len(scanLog)) = scanLog
            /\ scanLog'[Len(scanLog')].allowed
            /\ scanLog'[Len(scanLog')].user_id = u
            /\ scanLog'[Len(scanLog')].nfc_id = t
            /\ IF pr > 0
                 THEN ledger' = Append(ledger, LedgerRow(u, pr, "", ""))
                 ELSE ledger' = ledger
            /\ points' = [points EXCEPT ![u] = points[u] + pr]
            /\ SumDeltas(ledger', u) = SumDeltas(ledger, u) + pr
            /\ stageProg'[u][st] =
                 IF old.status = "none"
                   THEN [NoRow EXCEPT !.status = "in_progress", !.nfc_count = 1]
                   ELSE [old EXCEPT !.nfc_count = old.nfc_count + 1]
            /\ \A v \in Users, x \in Stages :
                 (v # u \/ x # st) => stageProg'[v][x] = stageProg[v][x]]_vars

\* two allowed scans of t1 (1 coin, hint h1 of stage sA): two coins paid and
\* a count of 2; and an allowed scan of t2, which pays nothing
C12_Witness ==
  /\ stageProg[ScanUser]["sA"].nfc_count = 2
  /\ stageProg[ScanUser]["sA"].status = "in_progress"
  /\ stageProg[ScanUser]["sB"].nfc_count = 1
  /\ points[ScanUser] = 3
  /\ Len(ledger) = 4
  /\ Cardinality(AllowedScans(scanLog, ScanUser, "t1")) = 2
  /\ Len(scanLog) = 3
  /\ resp[1].allowed

ScanRowOf(p) ==
  LogRow(loc[p].user, loc[p].udid, loc[p].hint_id, TRUE, "", 0, loc[p].t0)

\* the scan in flight on slot p has left nothing in the database
NothingCommitted(p) ==
  /\ \A i \in DOMAIN scanLog' : scanLog'[i] # ScanRowOf(p)
  /\ (pc[p] \in {"scan_commit", "scan_next"} /\ loc[p].hint # "")
       => stageProg'[loc[p].user][hint_stage[loc[p].hint]] = loc[p].stage_progress
  /\ (pc[p] \in {"scan_progress", "scan_commit", "scan_next"}
      /\ tag_point_reward[loc[p].udid] > 0)
       => /\ points'[loc[p].user] = loc[p].current_points
          /\ SumDeltas(ledger', loc[p].user) = loc[p].current_points

\* the scan in flight on slot p has left all of its writes in the database
AllCommitted(p) ==
  /\ \E i \in DOMAIN scanLog' : scanLog'[i] = ScanRowOf(p)
  /\ loc[p].hint # ""
       => stageProg'[loc[p].user][hint_stage[loc[p].hint]].nfc_count
            = loc[p].stage_progress.nfc_count + 1
  /\ tag_point_reward[loc[p].udid] > 0
       => /\ points'[loc[p].user] = loc[p].current_points + tag_point_reward[loc[p].udid]
          /\ SumDeltas(ledger', loc[p].user)
               = loc[p].current_points + tag_point_reward[loc[p].udid]

C15_LedgerAppendOnly ==
  /\ [][/\ Len(ledger') >= Len(ledger)
        /\ SubSeq(ledger', 1, Len(ledger)) = ledger]_vars
  /\ [][AdjustUserCommit(1) =>
          ledger' = Append(ledger, LedgerRow(loc[1].user, loc[1].coin_delta, "", ""))]_vars

\* the ledger of u1 after an admin correction of -2 and a paid scan or
\* verification: the opening entry still first, the two entries appended
C15_Witness ==
  /\ Len(ledger) = 4
  /\ ledger[3] = LedgerRow("u1", -2, "", "")
  /\ ledger[4] = LedgerRow("u1", 1, "", "")
  /\ resp[1].kind \in {"scan", "verify"}


\* C16: a join by a user who already has a progress row for the content is
\* answered joined=true with the status of the row, and changes no state,
\* whatever the state of the content at the repeat call.
C16_RepeatJoinNeverFails ==
  [][\A u \in Users, c \in Contents :
       (JoinContent(1, u, c) /\ contentProg[u][c].status # "none")
         => /\ resp'[1].status = 200
            /\ resp'[1].detail = contentProg[u][c].status
            /\ UNCHANGED <<ledger, points, stock, progVars>>]_vars

\* C17: a join creates the progress row only if the content exists, is open,
\* and is always on or has a window that holds the current time; every other
\* join is answered 404 or 400 and creates no row.
JoinAllowed(c) ==
  /\ c \in Contents
  /\ content_is_open[c]
  /\ \/ content_is_always_on[c]
     \/ /\ IsNull(content_start_at[c]) \/ ~(now < Val(content_start_at[c]))
        /\ IsNull(content_end_at[c]) \/ ~(now > Val(content_end_at[c]))

StatusRank(st) ==
  CASE st = "none" -> 0 [] st = "locked" -> 1 [] st = "unlocked" -> 2
    [] st = "in_progress" -> 3 [] st = "cleared" -> 4

C18_StatusNeverMovesBack ==
  [][\A u \in Users, s \in Stages :
       /\ StatusRank(stageProg'[u][s].status) >= StatusRank(stageProg[u][s].status)
       /\ stageProg[u][s].status = "cleared" => stageProg'[u][s].status = "cleared"]_vars

\* sA was cleared and then tapped, which left it cleared, and an unlock moved
\* the locked sB to unlocked
C18_Witness ==
  /\ stageProg[ProgUser]["sA"].status = "cleared"
  /\ stageProg[ProgUser]["sA"].nfc_count = 1
  /\ stageProg[ProgUser]["sB"].status = "unlocked"
  /\ stageProg[ProgUser]["sA1"].status = "locked"
  /\ resp[1].kind = "unlock" /\ resp[1].unlocked

\* C19: a clear of an existing stage for which the user has no progress row,
\* or a row in any status but cleared, succeeds and leaves the row cleared
\* with cleared_at set; neither the unlock state of the stage nor its
\* unlock_stage_id is looked at.
C19_ClearIsPermissive ==
  [][\A s \in Stages, bt \in BestTimes :
       (ClearStage(1, ProgUser, s, bt) /\ stageProg[ProgUser][s].status # "cleared")
         => /\ resp'[1].status = 200
            /\ resp'[1].cleared
            /\ stageProg'[ProgUser][s].status = "cleared"
            /\ stageProg'[ProgUser][s].cleared_at = Some(now)]_vars

\* sB, locked and tapped once, was cleared while its prerequisite sA was still
\* locked and the user had not joined the content
C19_Witness ==
  /\ stageProg[ProgUser]["sB"].status = "cleared"
  /\ stageProg[ProgUser]["sB"].nfc_count = 1
  /\ stageProg[ProgUser]["sB"].cleared_at = Some(now)
  /\ stageProg[ProgUser]["sA"].status = "locked"
  /\ contentProg[ProgUser]["c1"].status = "none"
  /\ resp[1].kind = "clear" /\ resp[1].status = 200 /\ resp[1].cleared

\* C20: the stored best_time_sec of a stage is the smallest value submitted in
\* the clear calls so far (null if none): a clear carrying a strictly smaller
\* value, or the first value, replaces the stored one, and any other clear
\* leaves it as it is.
C20_BestTimeIsMinimum ==
  [][\A s \in Stages, bt \in BestTimes :
       ClearStage(1, ProgUser, s, bt) =>
         LET stored == stageProg[ProgUser][s].best_time_sec
         IN stageProg'[ProgUser][s].best_time_sec =
              IF ~IsNull(bt) /\ (IsNull(stored) \/ Val(bt) < Val(stored))
                THEN bt ELSE stored]_vars

\* C21: the cooldown is looked at once, before any lock: a scan that has
\* passed the gate is never denied afterwards, and its commit logs it as
\* allowed and pays the reward of the tag whatever the log holds by then, so
\* that two concurrent scans of one tag by one user are both allowed and paid.
ScanPastGate(p) ==
  /\ loc[p].kind = "scan"
  /\ pc[p] \in {"scan_lock_user", "scan_progress", "scan_commit", "scan_next"}

C21_CooldownCheckedOnce ==
  /\ [][\A p \in Procs :
          (ScanPastGate(p) /\ pc'[p] = "idle")
            => \/ resp'[p].allowed
               \/ StaleInsert(p) /\ resp'[p].status = 500]_vars
  /\ [][\A p \in Procs :
          ScanCommit(p)
            => /\ scanLog' = Append(scanLog, LogRow(loc[p].user, loc[p].udid,
                                                    loc[p].hint_id, TRUE, "", 0, loc[p].t0))
               /\ points'[loc[p].user] =
                    points[loc[p].user] + tag_point_reward[loc[p].udid]]_vars

\* two scans of t1 by one user, stamped less than the cooldown of t1 apart,
\* were both answered allowed and both paid
C21_Witness ==
  /\ \E i, j \in DOMAIN scanLog :
       /\ i < j
       /\ scanLog[i].allowed /\ scanLog[j].allowed
       /\ scanLog[i].user_id = ScanUser /\ scanLog[j].user_id = ScanUser
       /\ scanLog[i].nfc_id = "t1" /\ scanLog[j].nfc_id = "t1"
       /\ scanLog[j].scanned_at - scanLog[i].scanned_at
            < tag_cooldown_sec["t1"] * TicksPerSec
  /\ resp[1].kind = "scan" /\ resp[1].allowed
  /\ resp[2].kind = "scan" /\ resp[2].allowed
  /\ points[ScanUser] = 1 + 2 * tag_point_reward["t1"]
  /\ LedgerSum(ScanUser) = points[ScanUser]

\* C22: no increment of nfc_count is lost: every committed admission of a
\* scan with a hint, or of a location check, leaves the committed nfc_count of
\* the stage one above the committed count it found, so that the count is the
\* number of committed admissions under any interleaving.
C22_NoLostIncrement ==
  [][\A p \in Procs :
       ((ScanCommit(p) /\ loc[p].hint # "") \/ VerifyCommit(p))
         => stageProg'[loc[p].user][hint_stage[loc[p].hint]].nfc_count
              = stageProg[loc[p].user][hint_stage[loc[p].hint]].nfc_count + 1]_vars

WithinCooldown(u, t) ==
  /\ tag_cooldown_sec[t] > 0
  /\ \E i \in DOMAIN scanLog :
       /\ scanLog[i].user_id = u /\ scanLog[i].nfc_id = t /\ scanLog[i].allowed
       /\ now - scanLog[i].scanned_at < tag_cooldown_sec[t] * TicksPerSec

AtLimit(u, t) ==
  /\ ~IsNull(tag_use_limit[t])
  /\ Cardinality({i \in DOMAIN scanLog :
                    scanLog[i].user_id = u /\ scanLog[i].nfc_id = t /\ scanLog[i].allowed})
       >= Val(tag_use_limit[t])

C25_VerifyHasNoLimit ==
  /\ [][\A u \in Users, h \in Hints, x \in Points :
          (/\ VerifyLocation(1, u, h, x)
           /\ Abs(x - Val(hint_location[h])) <= Val(hint_radius_m[h]))
            => pc'[1] \in {"verify_lock_user", "verify_progress"}]_vars
  /\ [][VerifyCommit(1) =>
          LET u == loc[1].user
              h == loc[1].hint
          IN /\ points'[u] = points[u] + hint_reward_coin[h]
             /\ LedgerSum(u)' = LedgerSum(u) + hint_reward_coin[h]
             /\ stageProg'[u][hint_stage[h]].nfc_count
                  = stageProg[u][hint_stage[h]].nfc_count + 1]_vars
  /\ [][(pc[1] = "verify_next" /\ pc'[1] = "idle") => resp'[1].allowed]_vars
  /\ [](\A u \in Users :
          /\ points[u] = 1 + hint_reward_coin["h1"] * stageProg[u]["sA"].nfc_count
          /\ LedgerSum(u) = points[u])

\* three location checks of h1 in a row were allowed and paid
C25_Witness ==
  /\ stageProg[ScanUser]["sA"].nfc_count = 3
  /\ points[ScanUser] = 1 + 3 * hint_reward_coin["h1"]
  /\ LedgerSum(ScanUser) = 1 + 3 * hint_reward_coin["h1"]
  /\ resp[1].kind = "verify" /\ resp[1].allowed
  /\ ops = 3

\* C29: the ledger balance of a player rises only at the commit of an allowed
\* scan, of an allowed location check or of an admin point adjustment; no call
\* of the player appends a positive entry of an amount the caller chose.
C29_BalanceRisesOnlyByGrant ==
  [][\A u \in Users :
       LedgerSum(u)' > LedgerSum(u)
         => ScanCommit(1) \/ VerifyCommit(1) \/ AdjustUserCommit(1)]_vars

\* C26: the purge job deletes the row of a user only when the status of the
\* row is deleted (never active or blocked) and at least 30 days have passed
\* since the status last changed into deleted.
C26_PurgeAfterRetention ==
  [][\A u \in Users :
       (userRows[u] # NoUser /\ userRows'[u] = NoUser)
         => /\ userRows[u].status = "deleted"
            /\ ~IsNull(lastDeleted[u])
            /\ now - Val(lastDeleted[u]) >= RETENTION_DAYS * TicksPerDay]_vars

\* C30: the operations that append no ledger entry (profile update, admin
\* user update, join, unlock, clear) leave the cached points of every user
\* as they were.
C30_CacheKeptWithoutLedgerEntry ==
  [][Len(ledger') = Len(ledger) => points' = points]_vars

\* C27: after the admin's hint operations every NFC tag is bound to at most
\* one hint, so the lookup of the hint of a scanned tag finds at most one row.
C27_TagBoundToOneHint ==
  \A t \in Tags :
    Cardinality({h \in LiveHints : stageHints[h].nfc_id = Some(t)}) <= 1

\* C28: after the committed hint operations, in any order and interleaving,
\* uses_nfc of a stage is true exactly when the stage has a hint whose nfc_id
\* is not null.
C28_UsesNfcFollowsHints ==
  \A x \in Stages :
    uses_nfc[x] <=>
      \E h \in LiveHints : stageHints[h].stage_id = x /\ ~IsNull(stageHints[h].nfc_id)
====
